---- MODULE Spec2Model ----
(***************************************************************************)
(* Model of the JARVIS catalog assistant: the chat route                   *)
(* (src/app/api/chat/route.ts) and the page that calls it                  *)
(* (src/app/page.tsx).                                                     *)
(*                                                                         *)
(* JavaScript strings are modelled as sequences of one-character strings,  *)
(* so that includes, toLowerCase, toUpperCase, replace, split, trim and    *)
(* the regular expressions are computed character by character.            *)
(***************************************************************************)
EXTENDS Integers, Sequences, FiniteSets, TLC

VARIABLES
  now,          \* the reading Date.now() returns
  catalogData,  \* page.tsx: useState<CatalogItem[]>([])
  rawData,      \* page.tsx: useState('')
  isProcessing, \* page.tsx: useState(false)
  net,          \* the fetch('/api/chat') in flight: request, response or idle
  reader,       \* the FileReader whose onload is pending, if any
  call,         \* a direct call of one of the route's functions, and its result
  speech        \* page.tsx: isListening, recognitionRef and the recognizers

vars ==
  <<now, catalogData, rawData, isProcessing, net, reader, call, speech>>

----------------------------------------------------------------------------
(* Characters *)

UpperLetters ==
  <<"A","B","C","D","E","F","G","H","I","J","K","L","M",
    "N","O","P","Q","R","S","T","U","V","W","X","Y","Z">>

LowerLetters ==
  <<"a","b","c","d","e","f","g","h","i","j","k","l","m",
    "n","o","p","q","r","s","t","u","v","w","x","y","z">>

Digits == <<"0","1","2","3","4","5","6","7","8","9">>

\* \s of the regular expressions, and what trim() removes
Whitespace == {" ", "\n", "\t"}

\* what . does not match
LineTerminators == {"\n"}

IndexIn(c, letters) == CHOOSE i \in 1..Len(letters) : letters[i] = c

IsIn(c, letters) == \E i \in 1..Len(letters) : letters[i] = c

toLowerChar(c) ==
  IF IsIn(c, UpperLetters) THEN LowerLetters[IndexIn(c, UpperLetters)] ELSE c

toUpperChar(c) ==
  IF IsIn(c, LowerLetters) THEN UpperLetters[IndexIn(c, LowerLetters)] ELSE c

toLowerCase(s) == [i \in 1..Len(s) |-> toLowerChar(s[i])]

toUpperCase(s) == [i \in 1..Len(s) |-> toUpperChar(s[i])]

\* String.prototype.includes
includes(s, sub) ==
  \E i \in 0..(Len(s) - Len(sub)) : SubSeq(s, i + 1, i + Len(sub)) = sub

\* String.prototype.trim
RECURSIVE trimStart(_)
trimStart(s) ==
  IF s # <<>> /\ Head(s) \in Whitespace THEN trimStart(Tail(s)) ELSE s

RECURSIVE trimEnd(_)
trimEnd(s) ==
  IF s # <<>> /\ s[Len(s)] \in Whitespace
  THEN trimEnd(SubSeq(s, 1, Len(s) - 1))
  ELSE s

trim(s) == trimEnd(trimStart(s))

\* field.replace(/\s+/g, '_'): every maximal run of whitespace becomes one _
RECURSIVE replaceSpaces(_)
replaceSpaces(s) ==
  IF s = <<>> THEN <<>>
  ELSE IF Head(s) \in Whitespace
       THEN <<"_">> \o replaceSpaces(trimStart(s))
       ELSE <<Head(s)>> \o replaceSpaces(Tail(s))

\* the least number of a non-empty set of numbers
Least(S) == CHOOSE x \in S : \A y \in S : x <= y

\* the greatest number of a non-empty set of numbers
Greatest(S) == CHOOSE x \in S : \A y \in S : y <= x

\* F(v), with v evaluated once
With(v, F(_)) == CHOOSE r \in {F(x) : x \in {v}} : TRUE

\* s.split('.'): the pieces between the dots, empty pieces included
splitDot(s) ==
  LET dots == {i \in 1..Len(s) : s[i] = "."}
      \* the index of the j-th dot, 0 before the first, Len(s) + 1 past the last
      dot(j) == IF j = 0 THEN 0
                ELSE IF j > Cardinality(dots) THEN Len(s) + 1
                ELSE CHOOSE d \in dots : Cardinality({e \in dots : e < d}) = j - 1
  IN  [j \in 1..(Cardinality(dots) + 1) |->
         SubSeq(s, dot(j - 1) + 1, dot(j) - 1)]

\* pieces.join('. ')
RECURSIVE joinDotSpace(_)
joinDotSpace(pieces) ==
  IF pieces = <<>> THEN <<>>
  ELSE IF Len(pieces) = 1 THEN pieces[1]
       ELSE pieces[1] \o <<".", " ">> \o joinDotSpace(Tail(pieces))

\* pieces.slice(0, n)
sliceFirst(pieces, n) ==
  SubSeq(pieces, 1, IF Len(pieces) < n THEN Len(pieces) ELSE n)

\* the decimal digits of a natural number, as `${n}` renders it
RECURSIVE natToString(_)
natToString(n) ==
  IF n < 10 THEN <<Digits[n + 1]>>
  ELSE natToString(n \div 10) \o <<Digits[(n % 10) + 1]>>

----------------------------------------------------------------------------
(* String literals of route.ts *)

s_amazon ==  \* "amazon"
  <<"a","m","a","z","o","n">>
s_flipkart ==  \* "flipkart"
  <<"f","l","i","p","k","a","r","t">>
s_meesho ==  \* "meesho"
  <<"m","e","e","s","h","o">>
s_myntra ==  \* "myntra"
  <<"m","y","n","t","r","a">>

s_catalog ==  \* "catalog"
  <<"c","a","t","a","l","o","g">>
s_listing ==  \* "listing"
  <<"l","i","s","t","i","n","g">>
s_product ==  \* "product"
  <<"p","r","o","d","u","c","t">>
s_task ==  \* "task"
  <<"t","a","s","k">>
s_remind ==  \* "remind"
  <<"r","e","m","i","n","d">>
s_schedule ==  \* "schedule"
  <<"s","c","h","e","d","u","l","e">>
s_help ==  \* "help"
  <<"h","e","l","p">>
s_how ==  \* "how"
  <<"h","o","w">>
s_analyze ==  \* "analyze"
  <<"a","n","a","l","y","z","e">>
s_check ==  \* "check"
  <<"c","h","e","c","k">>
s_requirement ==  \* "requirement"
  <<"r","e","q","u","i","r","e","m","e","n","t">>
s_guideline ==  \* "guideline"
  <<"g","u","i","d","e","l","i","n","e">>

----------------------------------------------------------------------------
(* analyzeMessage *)

Platforms == <<s_amazon, s_flipkart, s_meesho, s_myntra>>

\* platforms.push(p) for every marketplace name the message contains
RECURSIVE pushMentioned(_, _)
pushMentioned(messageLower, names) ==
  IF names = <<>> THEN <<>>
  ELSE (IF includes(messageLower, Head(names)) THEN <<Head(names)>> ELSE <<>>)
       \o pushMentioned(messageLower, Tail(names))

\* the chain with its first two branches exchanged
intentOf_taskFirst(messageLower) ==
  IF \/ includes(messageLower, s_task)
     \/ includes(messageLower, s_remind)
     \/ includes(messageLower, s_schedule)
  THEN "task"
  ELSE IF \/ includes(messageLower, s_catalog)
          \/ includes(messageLower, s_listing)
          \/ includes(messageLower, s_product)
  THEN "catalog"
  ELSE IF includes(messageLower, s_help) \/ includes(messageLower, s_how)
  THEN "help"
  ELSE IF includes(messageLower, s_analyze) \/ includes(messageLower, s_check)
  THEN "analyze"
  ELSE "general"

intentOf(messageLower) ==
  IF \/ includes(messageLower, s_catalog)
     \/ includes(messageLower, s_listing)
     \/ includes(messageLower, s_product)
  THEN "catalog"
  ELSE IF \/ includes(messageLower, s_task)
          \/ includes(messageLower, s_remind)
          \/ includes(messageLower, s_schedule)
  THEN "task"
  ELSE IF includes(messageLower, s_help) \/ includes(messageLower, s_how)
  THEN "help"
  ELSE IF includes(messageLower, s_analyze) \/ includes(messageLower, s_check)
  THEN "analyze"
  ELSE "general"

analyzeMessage(message) ==
  LET messageLower == toLowerCase(message)
      intent == intentOf(messageLower)
      mentioned == pushMentioned(messageLower, Platforms)
  IN  [intent |-> intent,
       platforms |-> IF mentioned = <<>> /\ intent = "catalog"
                     THEN Platforms
                     ELSE mentioned]

----------------------------------------------------------------------------
(* JavaScript values *)

\* A string is a sequence of characters.  A value that is no string is a
\* one-element sequence holding a tag, which is longer than one character and
\* so differs from every string.
Undefined == <<"undefined">>

NumberZero == <<"number 0">>

\* what if (v) and v || d take for true: every string but '', no undefined,
\* no 0
Truthy(v) == v # <<>> /\ v # Undefined /\ v # NumberZero

\* a ?? b in place of a || b: the variant that keeps an empty string
Or_nullish(a, b) == IF a = Undefined THEN b ELSE a

\* a || b
Or(a, b) == IF Truthy(a) THEN a ELSE b

\* obj[key], undefined when the object has no such key
Get(obj, key) == IF key \in DOMAIN obj THEN obj[key] ELSE Undefined

\* the object after the assignments obj[a.key] = a.value, made in the order
\* of the sequence: the last assignment to a key is the one that stays
assignAll(obj, assignments) ==
  With(assignments, LAMBDA as :
    LET assigned == {as[i].key : i \in DOMAIN as}
        last(key) == Greatest({i \in DOMAIN as : as[i].key = key})
    IN  [key \in (DOMAIN obj) \cup assigned |->
           IF key \in assigned THEN as[last(key)].value ELSE obj[key]])

\* Object.assign(target, source), and { ...target, ...source }
ObjectAssign(target, source) ==
  [k \in (DOMAIN target) \cup (DOMAIN source) |->
     IF k \in DOMAIN source THEN source[k] ELSE target[k]]

\* {}
EmptyObject == <<>>

----------------------------------------------------------------------------
(* PLATFORM_FIELDS *)

f_ProductName ==  \* "Product Name"
  <<"P","r","o","d","u","c","t"," ","N","a","m","e">>
f_Brand ==  \* "Brand"
  <<"B","r","a","n","d">>
f_Category ==  \* "Category"
  <<"C","a","t","e","g","o","r","y">>
f_Price ==  \* "Price"
  <<"P","r","i","c","e">>
f_MRP ==  \* "MRP"
  <<"M","R","P">>
f_SKU ==  \* "SKU"
  <<"S","K","U">>
f_Description ==  \* "Description"
  <<"D","e","s","c","r","i","p","t","i","o","n">>
f_KeyFeatures ==  \* "Key Features"
  <<"K","e","y"," ","F","e","a","t","u","r","e","s">>
f_Images ==  \* "Images"
  <<"I","m","a","g","e","s">>
f_Weight ==  \* "Weight"
  <<"W","e","i","g","h","t">>
f_Dimensions ==  \* "Dimensions"
  <<"D","i","m","e","n","s","i","o","n","s">>
f_Color ==  \* "Color"
  <<"C","o","l","o","r">>
f_Size ==  \* "Size"
  <<"S","i","z","e">>
f_Material ==  \* "Material"
  <<"M","a","t","e","r","i","a","l">>
f_HSNCode ==  \* "HSN Code"
  <<"H","S","N"," ","C","o","d","e">>
f_GST ==  \* "GST"
  <<"G","S","T">>
f_ListingPrice ==  \* "Listing Price"
  <<"L","i","s","t","i","n","g"," ","P","r","i","c","e">>
f_ProductID ==  \* "Product ID"
  <<"P","r","o","d","u","c","t"," ","I","D">>
f_ProductImage ==  \* "Product Image"
  <<"P","r","o","d","u","c","t"," ","I","m","a","g","e">>
f_PackageWeight ==  \* "Package Weight"
  <<"P","a","c","k","a","g","e"," ","W","e","i","g","h","t">>
f_PackageDimensions ==  \* "Package Dimensions"
  <<"P","a","c","k","a","g","e"," ","D","i","m","e","n","s","i","o","n","s">>
f_ProductDescription ==  \* "Product Description"
  <<"P","r","o","d","u","c","t"," ","D","e","s","c","r","i","p","t","i","o","n">>
f_ProductImages ==  \* "Product Images"
  <<"P","r","o","d","u","c","t"," ","I","m","a","g","e","s">>
f_ReturnPolicy ==  \* "Return Policy"
  <<"R","e","t","u","r","n"," ","P","o","l","i","c","y">>
f_SellingPrice ==  \* "Selling Price"
  <<"S","e","l","l","i","n","g"," ","P","r","i","c","e">>
f_StyleID ==  \* "Style ID"
  <<"S","t","y","l","e"," ","I","D">>
f_CareInstructions ==  \* "Care Instructions"
  <<"C","a","r","e"," ","I","n","s","t","r","u","c","t","i","o","n","s">>
f_Occasion ==  \* "Occasion"
  <<"O","c","c","a","s","i","o","n">>
f_Pattern ==  \* "Pattern"
  <<"P","a","t","t","e","r","n">>
f_Fit ==  \* "Fit"
  <<"F","i","t">>

PLATFORM_FIELDS(platform) ==
  IF platform = s_amazon THEN
    [required |-> <<f_ProductName, f_Brand, f_Category, f_Price, f_MRP, f_SKU,
                    f_Description, f_KeyFeatures, f_Images>>,
     optional |-> <<f_Weight, f_Dimensions, f_Color, f_Size, f_Material,
                    f_HSNCode, f_GST>>]
  ELSE IF platform = s_flipkart THEN
    [required |-> <<f_ProductName, f_Brand, f_Category, f_ListingPrice, f_MRP,
                    f_ProductID, f_Description, f_KeyFeatures, f_ProductImage>>,
     optional |-> <<f_PackageWeight, f_PackageDimensions, f_Color, f_Size,
                    f_Material, f_HSNCode>>]
  ELSE IF platform = s_meesho THEN
    [required |-> <<f_ProductName, f_Category, f_Price, f_ProductDescription,
                    f_ProductImages, f_Size, f_Color>>,
     optional |-> <<f_Brand, f_Material, f_Weight, f_HSNCode, f_ReturnPolicy>>]
  ELSE \* myntra
    [required |-> <<f_ProductName, f_Brand, f_Category, f_MRP, f_SellingPrice,
                    f_StyleID, f_Description, f_Size, f_Color, f_Images>>,
     optional |-> <<f_Material, f_CareInstructions, f_Occasion, f_Pattern,
                    f_Fit>>]

----------------------------------------------------------------------------
(* generatePlatformListing *)

\* the keys of the object extractProductInfo returns
k_name ==  \* "name"
  <<"n","a","m","e">>
k_brand ==  \* "brand"
  <<"b","r","a","n","d">>
k_price ==  \* "price"
  <<"p","r","i","c","e">>
k_category ==  \* "category"
  <<"c","a","t","e","g","o","r","y">>
k_description ==  \* "description"
  <<"d","e","s","c","r","i","p","t","i","o","n">>
k_size ==  \* "size"
  <<"s","i","z","e">>
k_color ==  \* "color"
  <<"c","o","l","o","r">>
k_material ==  \* "material"
  <<"m","a","t","e","r","i","a","l">>
k_weight ==  \* "weight"
  <<"w","e","i","g","h","t">>
k_sku ==  \* "sku"
  <<"s","k","u">>

s_Generic ==  \* "Generic"
  <<"G","e","n","e","r","i","c">>
s_SKU ==  \* "SKU"
  <<"S","K","U">>
s_PID ==  \* "PID"
  <<"P","I","D">>
s_STYLE ==  \* "STYLE"
  <<"S","T","Y","L","E">>
s_ImageURLs ==  \* "[Image URLs]"
  <<"[","I","m","a","g","e"," ","U","R","L","s","]">>
s_REQUIRED ==  \* "[REQUIRED]"
  <<"[","R","E","Q","U","I","R","E","D","]">>

RECURSIVE pow10(_)
pow10(n) == IF n = 0 THEN 1 ELSE 10 * pow10(n - 1)

\* the number the digits of s write
RECURSIVE digitsValue(_)
digitsValue(s) ==
  IF s = <<>> THEN 0
  ELSE 10 * digitsValue(SubSeq(s, 1, Len(s) - 1))
       + (IndexIn(s[Len(s)], Digits) - 1)

\* parseFloat of a string of the form \d+(\.\d+)?, as the number
\* units / 10^scale
parseFloat(s) ==
  IF \E i \in 1..Len(s) : s[i] = "."
  THEN LET dot == CHOOSE i \in 1..Len(s) : s[i] = "."
       IN  [units |-> digitsValue(SubSeq(s, 1, dot - 1) \o
                                  SubSeq(s, dot + 1, Len(s))),
            scale |-> Len(s) - dot]
  ELSE [units |-> digitsValue(s), scale |-> 0]

\* (x * 1.2).toFixed(2): x * 1.2 to the nearest hundredth, two decimals
\* always written.  Exact for every x of at most two decimals (12 * units
\* never ends in 5, so no tie arises for binary rounding to decide).
times12toFixed2(x) ==
  LET units == x.units * 12
      scale == x.scale + 1
      cents == IF scale <= 2 THEN units * pow10(2 - scale)
               ELSE (units + 5 * pow10(scale - 3)) \div pow10(scale - 2)
  IN  natToString(cents \div 100) \o <<".">> \o
      <<Digits[((cents \div 10) % 10) + 1], Digits[(cents % 10) + 1]>>

\* fieldMapping[field], with t the reading of Date.now(); undefined for a
\* label the table has no entry for
fieldMapping(extractedData, t, field) ==
  LET e(k) == Get(extractedData, k) IN
  IF field = f_ProductName THEN Or(e(k_name), <<>>)
  ELSE IF field = f_Brand THEN Or(e(k_brand), s_Generic)
  ELSE IF field = f_Category THEN Or(e(k_category), <<>>)
  ELSE IF field = f_Price THEN Or(e(k_price), <<>>)
  ELSE IF field = f_SellingPrice THEN Or(e(k_price), <<>>)
  ELSE IF field = f_ListingPrice THEN Or(e(k_price), <<>>)
  ELSE IF field = f_MRP THEN
    IF Truthy(e(k_price)) THEN times12toFixed2(parseFloat(e(k_price)))
    ELSE <<>>
  ELSE IF field = f_SKU THEN Or(e(k_sku), s_SKU \o natToString(t))
  ELSE IF field = f_ProductID THEN Or(e(k_sku), s_PID \o natToString(t))
  ELSE IF field = f_StyleID THEN Or(e(k_sku), s_STYLE \o natToString(t))
  ELSE IF field = f_Description THEN Or(e(k_description), <<>>)
  ELSE IF field = f_ProductDescription THEN Or(e(k_description), <<>>)
  ELSE IF field = f_KeyFeatures THEN
    IF Truthy(e(k_description))
    THEN joinDotSpace(sliceFirst(splitDot(e(k_description)), 5))
    ELSE <<>>
  ELSE IF field = f_Size THEN Or(e(k_size), <<>>)
  ELSE IF field = f_Color THEN Or(e(k_color), <<>>)
  ELSE IF field = f_Material THEN Or(e(k_material), <<>>)
  ELSE IF field = f_Weight THEN Or(e(k_weight), <<>>)
  ELSE IF field = f_PackageWeight THEN Or(e(k_weight), <<>>)
  ELSE IF field = f_Images THEN s_ImageURLs
  ELSE IF field = f_ProductImage THEN s_ImageURLs
  ELSE IF field = f_ProductImages THEN s_ImageURLs
  ELSE Undefined

\* `${platform.toUpperCase()}_${field.replace(/\s+/g, '_')}`
listingKey(platform, field) ==
  toUpperCase(platform) \o <<"_">> \o replaceSpaces(field)

\* the required loop without its || '[REQUIRED]'
fillRequired_unmarked(extractedData, t, platform, required) ==
  [i \in 1..Len(required) |->
     [key |-> listingKey(platform, required[i]),
      value |-> fieldMapping(extractedData, t, required[i])]]

\* fields.required.forEach(...): the assignments to listing it makes
fillRequired(extractedData, t, platform, required) ==
  [i \in 1..Len(required) |->
     [key |-> listingKey(platform, required[i]),
      value |-> Or(fieldMapping(extractedData, t, required[i]), s_REQUIRED)]]

\* the optional loop without its if (fieldMapping[field])
fillOptional_unfiltered(extractedData, t, platform, optional) ==
  [i \in 1..Len(optional) |->
     [key |-> listingKey(platform, optional[i]),
      value |-> fieldMapping(extractedData, t, optional[i])]]

\* fields.optional.forEach(...): the assignments to listing it makes
fillOptional(extractedData, t, platform, optional) ==
  SelectSeq([i \in 1..Len(optional) |->
               [key |-> listingKey(platform, optional[i]),
                value |-> fieldMapping(extractedData, t, optional[i])]],
            LAMBDA a : Truthy(a.value))

\* the listing with the clock reading written into it as well
generatePlatformListing_stamped(extractedData, platform, t) ==
  LET fields == PLATFORM_FIELDS(platform) IN
  assignAll(EmptyObject,
            fillRequired(extractedData, t, platform, fields.required) \o
            fillOptional(extractedData, t, platform, fields.optional) \o
            <<[key |-> <<"a", "t">>, value |-> natToString(t)]>>)

generatePlatformListing(extractedData, platform, t) ==
  LET fields == PLATFORM_FIELDS(platform) IN
  assignAll(EmptyObject,
            fillRequired(extractedData, t, platform, fields.required) \o
            fillOptional(extractedData, t, platform, fields.optional))

----------------------------------------------------------------------------
(* extractProductInfo *)

\* rawData.match(pattern) === null
Null == <<"null">>

p_rs ==  \* "rs"
  <<"r","s">>

\* The three characters the price pattern of route.ts:35 holds where a rupee
\* sign was meant (U+00E2 U+201A U+00B9), each written as the name of its
\* code point.
p_currencySign == <<"U+00E2", "U+201A", "U+00B9">>

\* the text has the literal lit at index i, letter case ignored (flag i)
literalAt(text, i, lit) ==
  /\ i + Len(lit) - 1 <= Len(text)
  /\ \A j \in 1..Len(lit) : toLowerChar(text[i + j - 1]) = toLowerChar(lit[j])

\* how many characters from index p on belong to the class cls
RECURSIVE runLength(_, _, _)
runLength(text, p, cls) ==
  IF p <= Len(text) /\ text[p] \in cls
  THEN 1 + runLength(text, p + 1, cls)
  ELSE 0

\* [\s:]
Separators == Whitespace \cup {":"}

DigitChars == {Digits[i] : i \in 1..Len(Digits)}

\* the index of the first line terminator at or after q, Len(text) + 1 if
\* there is none
lineEnd(text, q) ==
  Least({e \in q..Len(text) : text[e] \in LineTerminators}
        \cup {Len(text) + 1})

\* (?:\n|$) at index e, or (?:\n\n|$) when blankLine; $ is the end of the
\* input (the patterns have no m flag)
terminatorAt(text, e, blankLine) ==
  \/ e > Len(text)
  \/ /\ text[e] = "\n"
     /\ blankLine => (e + 1 <= Len(text) /\ text[e + 1] = "\n")

\* (.+?) followed by the terminator, tried from index q: the capture is lazy
\* and . matches no line terminator, so it can only end at the end of q's line
captureFrom(text, q, blankLine) ==
  LET e == lineEnd(text, q) IN
  IF /\ q <= Len(text)
     /\ text[q] \notin LineTerminators
     /\ terminatorAt(text, e, blankLine)
  THEN SubSeq(text, q, e - 1)
  ELSE Null

\* [\s:]+ is greedy: it first takes all k separators from p on and gives them
\* back one at a time while the rest of the pattern fails
RECURSIVE afterSeparators(_, _, _, _)
afterSeparators(text, p, k, blankLine) ==
  IF k = 0 THEN Null
  ELSE LET m == captureFrom(text, p + k, blankLine)
       IN  IF m # Null THEN m
           ELSE afterSeparators(text, p, k - 1, blankLine)

\* (?:a|b|c) at index i, the alternatives tried in order
RECURSIVE labelledAt(_, _, _, _)
labelledAt(text, i, labels, blankLine) ==
  IF labels = <<>> THEN Null
  ELSE LET p == i + Len(Head(labels))
           m == IF literalAt(text, i, Head(labels))
                THEN afterSeparators(text, p, runLength(text, p, Separators),
                                     blankLine)
                ELSE Null
       IN  IF m # Null THEN m
           ELSE labelledAt(text, i, Tail(labels), blankLine)

\* text.match(/(?:labels)[\s:]+(.+?)(?:\n|$)/i)[1]: the match that starts
\* leftmost
matchLabelled(text, labels, blankLine) ==
  LET at == [i \in 1..Len(text) |-> labelledAt(text, i, labels, blankLine)]
      starts == {i \in 1..Len(text) : at[i] # Null}
  IN  IF starts = {} THEN Null ELSE at[Least(starts)]

\* (\d+(?:\.\d+)?) at index q
numberAt(text, q) ==
  LET whole == runLength(text, q, DigitChars)
      dot == q + whole
      frac == IF dot <= Len(text) /\ text[dot] = "."
              THEN runLength(text, dot + 1, DigitChars)
              ELSE 0
  IN  IF whole = 0 THEN Null
      ELSE IF frac = 0 THEN SubSeq(text, q, dot - 1)
      ELSE SubSeq(text, q, dot + frac)

\* \s*(\d+(?:\.\d+)?) at index q
spacedNumberAt(text, q) == numberAt(text, q + runLength(text, q, Whitespace))

\* (?:rs\.?|<sign>)?\s*(\d+(?:\.\d+)?) at index r: the currency marker is
\* tried before its absence, rs. before rs
amountAt(text, r) ==
  LET markers == <<p_rs \o <<".">>, p_rs, p_currencySign, <<>>>>
      at == [j \in 1..Len(markers) |->
               IF literalAt(text, r, markers[j])
               THEN spacedNumberAt(text, r + Len(markers[j]))
               ELSE Null]
      found == {j \in 1..Len(markers) : at[j] # Null}
  IN  IF found = {} THEN Null ELSE at[Least(found)]

\* [\s:]+ before the amount, greedy, giving back while the amount fails
RECURSIVE amountAfterSeparators(_, _, _)
amountAfterSeparators(text, p, k) ==
  IF k = 0 THEN Null
  ELSE LET m == amountAt(text, p + k)
       IN  IF m # Null THEN m ELSE amountAfterSeparators(text, p, k - 1)

RECURSIVE pricedAt(_, _, _)
pricedAt(text, i, labels) ==
  IF labels = <<>> THEN Null
  ELSE LET p == i + Len(Head(labels))
           m == IF literalAt(text, i, Head(labels))
                THEN amountAfterSeparators(text, p,
                                           runLength(text, p, Separators))
                ELSE Null
       IN  IF m # Null THEN m ELSE pricedAt(text, i, Tail(labels))

\* text.match(patterns.price)[1]: the match that starts leftmost
matchPrice(text, labels) ==
  LET at == [i \in 1..Len(text) |-> pricedAt(text, i, labels)]
      starts == {i \in 1..Len(text) : at[i] # Null}
  IN  IF starts = {} THEN Null ELSE at[Least(starts)]

\* the labels of patterns[key], in the order of the alternation
patternLabels(key) ==
  IF key = k_name THEN       \* product name|name|title
      <<<<"p","r","o","d","u","c","t"," ","n","a","m","e">>,
        <<"n","a","m","e">>,
        <<"t","i","t","l","e">>>>
  ELSE IF key = k_brand THEN \* brand|manufacturer
      <<<<"b","r","a","n","d">>,
        <<"m","a","n","u","f","a","c","t","u","r","e","r">>>>
  ELSE IF key = k_price THEN \* price|selling price|mrp
      <<<<"p","r","i","c","e">>,
        <<"s","e","l","l","i","n","g"," ","p","r","i","c","e">>,
        <<"m","r","p">>>>
  ELSE IF key = k_category THEN \* category|type
      <<<<"c","a","t","e","g","o","r","y">>,
        <<"t","y","p","e">>>>
  ELSE IF key = k_description THEN \* description|details
      <<<<"d","e","s","c","r","i","p","t","i","o","n">>,
        <<"d","e","t","a","i","l","s">>>>
  ELSE IF key = k_size THEN  \* size
      <<<<"s","i","z","e">>>>
  ELSE IF key = k_color THEN \* color|colour
      <<<<"c","o","l","o","r">>,
        <<"c","o","l","o","u","r">>>>
  ELSE IF key = k_material THEN \* material|fabric
      <<<<"m","a","t","e","r","i","a","l">>,
        <<"f","a","b","r","i","c">>>>
  ELSE IF key = k_weight THEN \* weight
      <<<<"w","e","i","g","h","t">>>>
  ELSE                       \* sku|product id|item code
      <<<<"s","k","u">>,
        <<"p","r","o","d","u","c","t"," ","i","d">>,
        <<"i","t","e","m"," ","c","o","d","e">>>>

\* rawData.match(patterns[key])[1], Null when the pattern does not match;
\* only the description pattern ends at a blank line
patternMatch(key, text) ==
  IF key = k_price THEN matchPrice(text, patternLabels(key))
  ELSE matchLabelled(text, patternLabels(key), key = k_description)

PatternKeys ==
  {k_name, k_brand, k_price, k_category, k_description, k_size, k_color,
   k_material, k_weight, k_sku}

\* for (const [key, pattern] of Object.entries(patterns)) { ... }
extractProductInfo(text) ==
  With([key \in PatternKeys |-> patternMatch(key, text)], LAMBDA match :
    [key \in {k \in PatternKeys : match[k] # Null} |-> trim(match[key])])

----------------------------------------------------------------------------
(* POST *)

s_NewProduct ==  \* "New Product"
  <<"N","e","w"," ","P","r","o","d","u","c","t">>

\* A response text is the template the handler fills in, named by where it
\* stands in the handler, and the values interpolated into it.
Text(template, args) == [template |-> template, args |-> args]

ApologyText == Text("apology", <<>>)

NoCatalogText == Text("no catalog loaded", <<>>)

\* the catch block without its { status: 500 }
errorResponse_ok ==
  [status |-> 200,
   response |-> ApologyText,
   updatedCatalog |-> [kind |-> "absent", rows |-> <<>>]]

\* NextResponse.json({ response }, { status: 500 })
errorResponse ==
  [status |-> 500,
   response |-> ApologyText,
   updatedCatalog |-> [kind |-> "absent", rows |-> <<>>]]

\* NextResponse.json({ response, updatedCatalog })
okResponse(response, updatedCatalog) ==
  [status |-> 200, response |-> response, updatedCatalog |-> updatedCatalog]

NullCatalog == [kind |-> "null", rows |-> <<>>]

ListCatalog(rows) == [kind |-> "list", rows |-> rows]

IsString(v) == v \notin {Undefined, NumberZero, Null}

\* const newItem = { ...extracted }, then Object.assign(newItem, listing) for
\* the listing of every platform in order: a later listing's key stays
buildItem(extracted, platforms, t) ==
  With([i \in 1..Len(platforms) |->
          generatePlatformListing(extracted, platforms[i], t)],
       LAMBDA listings :
    LET listed == UNION {DOMAIN listings[i] : i \in DOMAIN listings}
        last(key) == Greatest({i \in DOMAIN listings :
                                 key \in DOMAIN listings[i]})
    IN  [key \in (DOMAIN extracted) \cup listed |->
           IF key \in listed THEN listings[last(key)][key]
           ELSE extracted[key]])

\* unshift in place of the spread: the new row first
appendItem_front(catalogRows, newItem) == <<newItem>> \o catalogRows

\* [...(catalogData || []), newItem]
appendItem(catalogRows, newItem) == Append(catalogRows, newItem)

\* `${platform}: ${field}`
missingEntry(platform, field) == platform \o <<":", " ">> \o field

\* the check without its !item[key]
isMissing_sentinelOnly(item, key) == Get(item, key) = s_REQUIRED

\* !item[key] || item[key] === '[REQUIRED]'
isMissing(item, key) ==
  ~Truthy(Get(item, key)) \/ Get(item, key) = s_REQUIRED

\* fields.required.forEach(field => { if (...) missingFields.push(...) })
missingOfPlatform(item, platform) ==
  With(SelectSeq(PLATFORM_FIELDS(platform).required,
                 LAMBDA field : isMissing(item, listingKey(platform, field))),
       LAMBDA missing :
    [i \in 1..Len(missing) |-> missingEntry(platform, missing[i])])

\* platforms.forEach(platform => ...)
RECURSIVE missingFields(_, _)
missingFields(item, platforms) ==
  IF platforms = <<>> THEN <<>>
  ELSE missingOfPlatform(item, Head(platforms))
       \o missingFields(item, Tail(platforms))

\* missingFields.slice(0, 10)
ListedMissing == 10

\* case 'catalog'
catalogCase(req, platforms, t) ==
  IF Truthy(req.rawData)
  THEN With(extractProductInfo(req.rawData), LAMBDA extracted :
         IF req.catalogKind = "number"
         THEN errorResponse   \* the spread of a number throws
         ELSE okResponse(
                Text("catalog processed",
                     platforms \o
                     <<Or(Get(extracted, k_name), s_NewProduct),
                       Or(Get(extracted, k_brand), <<>>),
                       Or(Get(extracted, k_price), <<>>)>>),
                ListCatalog(appendItem(
                  IF req.catalogKind = "list" THEN req.catalogData ELSE <<>>,
                  buildItem(extracted, platforms, t)))))
  ELSE okResponse(Text("catalog how-to", platforms), NullCatalog)

\* case 'analyze'
analyzeCase(req, platforms) ==
  IF req.catalogKind = "list" /\ Len(req.catalogData) > 0
  THEN With(missingFields(req.catalogData[1], platforms), LAMBDA missing :
         IF Len(missing) > 0
         THEN okResponse(
                Text("analysis missing",
                     <<natToString(Len(missing))>> \o
                     sliceFirst(missing, ListedMissing)),
                NullCatalog)
         ELSE okResponse(Text("analysis complete", platforms), NullCatalog))
  ELSE okResponse(NoCatalogText, NullCatalog)

\* case 'help'
helpCase(req, platforms) ==
  IF \/ includes(toLowerCase(req.message), s_requirement)
     \/ includes(toLowerCase(req.message), s_guideline)
  THEN okResponse(
         Text("help requirements",
              <<toUpperCase(IF platforms # <<>> THEN platforms[1]
                            ELSE s_amazon)>>),
         NullCatalog)
  ELSE okResponse(Text("help", <<>>), NullCatalog)

\* the switch over the intent
dispatch(req, t) ==
  With(analyzeMessage(req.message), LAMBDA a :
    IF a.intent = "catalog" THEN catalogCase(req, a.platforms, t)
    ELSE IF a.intent = "analyze" THEN analyzeCase(req, a.platforms)
    ELSE IF a.intent = "help" THEN helpCase(req, a.platforms)
    ELSE IF a.intent = "task" THEN okResponse(Text("task", <<>>), NullCatalog)
    ELSE okResponse(Text("general", <<>>), NullCatalog))

\* Every Date.now() of one request reads t: the handler runs to completion
\* within one clock reading.
POST(req, t) ==
  IF req.body # "json" THEN errorResponse         \* req.json() throws
  ELSE IF ~IsString(req.message) THEN errorResponse \* toLowerCase throws
  ELSE dispatch(req, t)

----------------------------------------------------------------------------
(* Bounds and inputs *)

\* the largest reading of the clock
MaxClock == 1

\* the longest catalog a chat request may grow the page's catalog to
MaxCatalog == 2

m_tasks ==  \* "what tasks do I have"
  <<"w","h","a","t"," ","t","a","s","k","s"," ","d","o"," ","I"," ","h","a","v","e">>
m_analyzeCatalog ==  \* "analyze my catalog"
  <<"a","n","a","l","y","z","e"," ","m","y"," ","c","a","t","a","l","o","g">>
m_meeshoProduct ==  \* "add meesho product"
  <<"a","d","d"," ","m","e","e","s","h","o"," ","p","r","o","d","u","c","t">>
m_checkTwo ==  \* "check amazon flipkart"
  <<"c","h","e","c","k"," ","a","m","a","z","o","n"," ","f","l","i","p","k","a","r","t">>
m_checkMeesho ==  \* "Check Meesho"
  <<"C","h","e","c","k"," ","M","e","e","s","h","o">>
m_guideline ==  \* "help flipkart guideline"
  <<"h","e","l","p"," ","f","l","i","p","k","a","r","t"," ","g","u","i","d","e","l","i","n","e">>
m_hello ==  \* "hello"
  <<"h","e","l","l","o">>
m_blank ==  \* "  "
  <<" "," ">>

\* what the user types or dictates into the chat input
Messages ==
  {m_tasks, m_analyzeCatalog, m_checkTwo, m_guideline, m_hello, m_blank}

r_shirt ==  \* "Product Name: Blue Shirt\nBrand: Acme\nPrice: 500\nColor: Blue"
  <<"P","r","o","d","u","c","t"," ","N","a","m","e",":"," ","B","l","u","e"," ","S","h","i","r","t","\n","B","r","a","n","d",":"," ","A","c","m","e","\n","P","r","i","c","e",":"," ","5","0","0","\n","C","o","l","o","r",":"," ","B","l","u","e">>
r_cap ==  \* "Title: Cap\nType: Hats\nMRP: Rs. 99.5\nSize: M\nColour: Red\nItem code: AB1\nDetails: Soft. Warm"
  <<"T","i","t","l","e",":"," ","C","a","p","\n","T","y","p","e",":"," ","H","a","t","s","\n","M","R","P",":"," ","R","s","."," ","9","9",".","5","\n","S","i","z","e",":"," ","M","\n","C","o","l","o","u","r",":"," ","R","e","d","\n","I","t","e","m"," ","c","o","d","e",":"," ","A","B","1","\n","D","e","t","a","i","l","s",":"," ","S","o","f","t","."," ","W","a","r","m">>

\* what the user pastes into the raw data text area
RawTexts == {r_shirt}

c_AMAZON_Price ==  \* "AMAZON_Price"
  <<"A","M","A","Z","O","N","_","P","r","i","c","e">>
c_AMAZON_Brand ==  \* "AMAZON_Brand"
  <<"A","M","A","Z","O","N","_","B","r","a","n","d">>
v_Old ==  \* "Old"
  <<"O","l","d">>

\* a row of an uploaded sheet whose AMAZON_Price cell holds the number 0
rowZeroPrice ==
  [k \in {k_name, c_AMAZON_Brand, c_AMAZON_Price} |->
     IF k = k_name THEN v_Old
     ELSE IF k = c_AMAZON_Brand THEN s_Generic
     ELSE NumberZero]

rowNameOnly == [k \in {k_name} |-> v_Old]

\* what XLSX.utils.sheet_to_json returns for the files the user uploads
Sheets == {<<rowZeroPrice>>}

\* a request of the shape the page sends
pageRequest(message, catalog, text) ==
  [kind |-> "request", origin |-> "page", body |-> "json",
   message |-> message, catalogKind |-> "list", catalogData |-> catalog,
   rawData |-> text]

\* a request of another HTTP client: any body, message and catalogData
clientRequest(body, message, catalogKind, text) ==
  [kind |-> "request", origin |-> "client", body |-> body,
   message |-> message, catalogKind |-> catalogKind, catalogData |-> <<>>,
   rawData |-> text]

ClientRequests ==
  {clientRequest("unparseable", Undefined, "undefined", <<>>),
   clientRequest("json", Undefined, "undefined", r_shirt),
   clientRequest("json", m_analyzeCatalog, "number", r_shirt),
   clientRequest("json", m_analyzeCatalog, "undefined", r_shirt)}

----------------------------------------------------------------------------
(* Voice capture: isListening, recognitionRef and the SpeechRecognition
   objects the effect creates.  A recognizer is idle, running, or ending
   (stopped, its end event not yet delivered, though results of the audio
   it captured may still be); listening is the isListening its handlers
   closed over.  rendered is the isListening the effect last
   ran for: the effect is due when it differs from isListening. *)

\* the most recognizers the effect creates
MaxRecognizers == 6

\* new SpeechRecognition() with the handlers of this run of the effect
newRecognizer(listening) == [state |-> "idle", listening |-> listening]

\* the page after its first render and the first run of the effect
Mounted ==
  [isListening |-> FALSE, rendered |-> FALSE, ref |-> 1,
   objs |-> <<newRecognizer(FALSE)>>, inputText |-> <<>>]

\* recognitionRef.current.start(): an idle recognizer starts
start(objs, i) == [objs EXCEPT ![i].state = "running"]

\* start() throws InvalidStateError on a recognizer that has started
startThrows(objs, i) == objs[i].state # "idle"

\* recognitionRef.current.stop(): a running recognizer ends, any other is
\* left as it is
stop(objs, i) ==
  IF objs[i].state = "running" THEN [objs EXCEPT ![i].state = "ending"]
  ELSE objs

\* the effect has room for the recognizer its next run creates
Room == Len(speech.objs) < MaxRecognizers

\* toggleListening, called from the last render; when start() throws,
\* setIsListening(true) is not reached
toggleListening ==
  /\ speech.rendered = speech.isListening
  /\ Room
  /\ speech' =
       IF speech.isListening
       THEN [speech EXCEPT !.objs = stop(speech.objs, speech.ref),
                           !.isListening = FALSE]
       ELSE IF startThrows(speech.objs, speech.ref) THEN speech
       ELSE [speech EXCEPT !.objs = start(speech.objs, speech.ref),
                           !.isListening = TRUE]
  /\ UNCHANGED <<now, catalogData, rawData, isProcessing, net, reader, call>>

\* useEffect(..., [isListening]): the cleanup of the last run, then the run
\* for the new isListening
useEffect ==
  /\ speech.rendered # speech.isListening
  /\ Room
  /\ speech' =
       [speech EXCEPT
          !.objs = Append(stop(speech.objs, speech.ref),
                          newRecognizer(speech.isListening)),
          !.ref = Len(speech.objs) + 1,
          !.rendered = speech.isListening]
  /\ UNCHANGED <<now, catalogData, rawData, isProcessing, net, reader, call>>

\* the browser ends a running session by itself
sessionEnds(i) ==
  /\ speech.objs[i].state = "running"
  /\ speech' = [speech EXCEPT !.objs[i].state = "ending"]
  /\ UNCHANGED <<now, catalogData, rawData, isProcessing, net, reader, call>>

\* what the recognition service hears
Transcripts == {<<"h", "i">>, <<"h", "i", " ", "a", "l", "l">>}

\* onresult of recognizer i: setInputText(transcript)
onresult(i, transcript) ==
  /\ speech.objs[i].state \in {"running", "ending"}
  /\ speech' = [speech EXCEPT !.inputText = transcript]
  /\ UNCHANGED <<now, catalogData, rawData, isProcessing, net, reader, call>>

\* onerror of recognizer i: setIsListening(false); the session ends
onerror(i) ==
  /\ speech.objs[i].state \in {"running", "ending"}
  /\ speech.isListening /\ speech.rendered => Room
  /\ speech' = [speech EXCEPT !.isListening = FALSE,
                              !.objs[i].state = "ending"]
  /\ UNCHANGED <<now, catalogData, rawData, isProcessing, net, reader, call>>

\* onend of recognizer i: if (isListening) recognitionRef.current.start(),
\* with the isListening the handler closed over
onend(i) ==
  /\ speech.objs[i].state = "ending"
  /\ speech' =
       [speech EXCEPT !.objs =
          LET ended == [speech.objs EXCEPT ![i].state = "idle"] IN
          IF speech.objs[i].listening /\ ~startThrows(ended, speech.ref)
          THEN start(ended, speech.ref)
          ELSE ended]
  /\ UNCHANGED <<now, catalogData, rawData, isProcessing, net, reader, call>>

----------------------------------------------------------------------------
(* The page and the route *)

Idle == [kind |-> "idle"]

NoFile == [pending |-> FALSE, rows |-> <<>>]

NoCall == [fn |-> "none", done |-> FALSE]

Init ==
  /\ now = 0
  /\ catalogData = <<>>
  /\ rawData = <<>>
  /\ isProcessing = FALSE
  /\ net = Idle
  /\ reader = NoFile
  /\ speech = Mounted
  /\ call = NoCall

\* the clock advances
Tick ==
  /\ now < MaxClock
  /\ now' = now + 1
  /\ UNCHANGED <<catalogData, rawData, isProcessing, net, reader, call,
               speech>>

\* onChange of the raw data text area
setRawData(text) ==
  /\ rawData' = text
  /\ UNCHANGED <<now, catalogData, isProcessing, net, reader, call,
               speech>>

\* the request would add a row to the catalog
growsCatalog(message) ==
  analyzeMessage(message).intent = "catalog" /\ Truthy(rawData)

\* handleSendMessage up to its await, with inputText = message; the input
\* and the Send button are disabled while isProcessing
handleSendMessage(message) ==
  /\ ~isProcessing
  /\ trim(message) # <<>>
  /\ net.kind = "idle"
  /\ growsCatalog(message) => Len(catalogData) < MaxCatalog
  /\ isProcessing' = TRUE
  /\ net' = pageRequest(message, catalogData, rawData)
  /\ UNCHANGED <<now, catalogData, rawData, reader, call,
               speech>>

\* the body reaches the route truncated
wireFault ==
  /\ net.kind = "request"
  /\ net.origin = "page"
  /\ net.body = "json"
  /\ net' = [net EXCEPT !.body = "unparseable"]
  /\ UNCHANGED <<now, catalogData, rawData, isProcessing, reader, call,
               speech>>

\* another client posts to /api/chat
clientSend(req) ==
  /\ net.kind = "idle"
  /\ net' = req
  /\ UNCHANGED <<now, catalogData, rawData, isProcessing, reader, call,
               speech>>

\* the route handles the request in flight
serve ==
  /\ net.kind = "request"
  /\ net' = [kind |-> "response", origin |-> net.origin, request |-> net,
             reply |-> POST(net, now)]
  /\ UNCHANGED <<now, catalogData, rawData, isProcessing, reader, call,
               speech>>

\* setCatalogData(data.updatedCatalog || []) without the if
applyReply_always(catalog, reply) == reply.updatedCatalog.rows

\* if (data.updatedCatalog) setCatalogData(data.updatedCatalog)
applyReply(catalog, reply) ==
  IF reply.updatedCatalog.kind = "list" THEN reply.updatedCatalog.rows
  ELSE catalog

\* handleSendMessage after its await: the try block and finally
receive ==
  /\ net.kind = "response"
  /\ net.origin = "page"
  /\ catalogData' = applyReply(catalogData, net.reply)
  /\ isProcessing' = FALSE
  /\ net' = Idle
  /\ UNCHANGED <<now, rawData, reader, call,
               speech>>

\* handleSendMessage after its await when fetch rejects: catch and finally
fetchFails ==
  /\ net.kind \in {"request", "response"}
  /\ net.origin = "page"
  /\ isProcessing' = FALSE
  /\ net' = Idle
  /\ UNCHANGED <<now, catalogData, rawData, reader, call,
               speech>>

\* the other client takes its answer
clientReceive ==
  /\ net.kind = "response"
  /\ net.origin = "client"
  /\ net' = Idle
  /\ UNCHANGED <<now, catalogData, rawData, isProcessing, reader, call,
               speech>>

\* handleFileUpload: reader.readAsBinaryString(file)
handleFileUpload(rows) ==
  /\ ~reader.pending
  /\ reader' = [pending |-> TRUE, rows |-> rows]
  /\ UNCHANGED <<now, catalogData, rawData, isProcessing, net, call,
               speech>>

\* reader.onload: setCatalogData(json)
readerOnload ==
  /\ reader.pending
  /\ catalogData' = reader.rows
  /\ reader' = NoFile
  /\ UNCHANGED <<now, rawData, isProcessing, net, call,
               speech>>

Next ==
  \/ Tick
  \/ \E text \in RawTexts \cup {<<>>} : setRawData(text)
  \/ \E message \in Messages : handleSendMessage(message)
  \/ wireFault
  \/ \E req \in ClientRequests : clientSend(req)
  \/ serve
  \/ receive
  \/ fetchFails
  \/ clientReceive
  \/ \E rows \in Sheets : handleFileUpload(rows)
  \/ readerOnload

Spec == Init /\ [][Next]_vars

\* the page with its voice handlers alone
InitVoice ==
  /\ now = 0
  /\ catalogData = <<>>
  /\ rawData = <<>>
  /\ isProcessing = FALSE
  /\ net = Idle
  /\ reader = NoFile
  /\ call = NoCall
  /\ speech = Mounted

NextVoice ==
  \/ toggleListening
  \/ useEffect
  \/ \E i \in DOMAIN speech.objs : sessionEnds(i)
  \/ \E i \in DOMAIN speech.objs :
       \E transcript \in Transcripts : onresult(i, transcript)
  \/ \E i \in DOMAIN speech.objs : onerror(i)
  \/ \E i \in DOMAIN speech.objs : onend(i)

SpecVoice == InitVoice /\ [][NextVoice]_vars

----------------------------------------------------------------------------
(* The route and its functions on every input of the bounded sets *)

v_BlueShirt ==  \* "Blue Shirt"
  <<"B","l","u","e"," ","S","h","i","r","t">>
v_Acme ==  \* "Acme"
  <<"A","c","m","e">>
v_500 ==  \* "500"
  <<"5","0","0">>
v_Shirts ==  \* "Shirts"
  <<"S","h","i","r","t","s">>
v_SoftWarm ==  \* "Soft. Warm. A. B. C. D"
  <<"S","o","f","t","."," ","W","a","r","m","."," ","A","."," ","B","."," ","C","."," ","D">>
v_M ==  \* "M"
  <<"M">>
v_Blue ==  \* "Blue"
  <<"B","l","u","e">>
v_Cotton ==  \* "Cotton"
  <<"C","o","t","t","o","n">>
v_200g ==  \* "200g"
  <<"2","0","0","g">>
v_AB12 ==  \* "AB12"
  <<"A","B","1","2">>

\* keys whose pattern has captured white space only, which trim() empties
EmptyKeys == {k_brand, k_color}

sampleValue(key) ==
  IF key = k_name THEN v_BlueShirt
  ELSE IF key = k_brand THEN v_Acme
  ELSE IF key = k_price THEN v_500
  ELSE IF key = k_category THEN v_Shirts
  ELSE IF key = k_description THEN v_SoftWarm
  ELSE IF key = k_size THEN v_M
  ELSE IF key = k_color THEN v_Blue
  ELSE IF key = k_material THEN v_Cotton
  ELSE IF key = k_weight THEN v_200g
  ELSE v_AB12

\* the objects extractProductInfo can return: any subset of the ten keys
ExtractedMaps ==
  {[k \in pe[1] |-> IF k \in pe[2] THEN <<>> ELSE sampleValue(k)] :
     pe \in {qe \in (SUBSET PatternKeys) \X (SUBSET EmptyKeys) :
               qe[2] \subseteq qe[1]}}

PlatformSet == {Platforms[i] : i \in 1..Len(Platforms)}

GenerateCalls ==
  {[fn |-> "generatePlatformListing", done |-> FALSE, extracted |-> e,
    platform |-> p, listing |-> EmptyObject] :
     e \in ExtractedMaps, p \in PlatformSet}

m_check ==  \* "check"
  <<"c","h","e","c","k">>
m_remindHow ==  \* "remind me how to check"
  <<"r","e","m","i","n","d"," ","m","e"," ","h","o","w"," ","t","o"," ","c","h","e","c","k">>
m_show ==  \* "show"
  <<"s","h","o","w">>
m_howCheck ==  \* "how to check myntra"
  <<"h","o","w"," ","t","o"," ","c","h","e","c","k"," ","m","y","n","t","r","a">>
m_scheduleListing ==  \* "Schedule a LISTING"
  <<"S","c","h","e","d","u","l","e"," ","a"," ","L","I","S","T","I","N","G">>
r_brandOnly ==  \* "Brand: "
  <<"B","r","a","n","d",":"," ">>

AllMessages ==
  Messages \cup
  {m_meeshoProduct, m_checkMeesho, m_check, m_remindHow, m_show, m_howCheck,
   m_scheduleListing}

AnalyzeCalls ==
  {[fn |-> "analyzeMessage", done |-> FALSE, message |-> m,
    result |-> [intent |-> "general", platforms |-> <<>>]] :
     m \in AllMessages}

\* the row POST builds from r_cap for all four platforms
rowCap == buildItem(extractProductInfo(r_cap), Platforms, 0)

Catalogs ==
  {<<>>, <<rowZeroPrice>>, <<rowZeroPrice, rowNameOnly>>,
   <<rowNameOnly, rowZeroPrice>>, <<rowCap>>, <<rowCap, rowNameOnly>>}

Requests ==
  ClientRequests \cup
  {pageRequest(m, c, r) :
     m \in AllMessages, c \in Catalogs,
     r \in {<<>>, r_shirt, r_cap, r_brandOnly}}

InitFn ==
  /\ now \in 0..MaxClock
  /\ catalogData = <<>>
  /\ rawData = <<>>
  /\ isProcessing = FALSE
  /\ reader = NoFile
  /\ speech = Mounted
  /\ \/ call \in GenerateCalls \cup AnalyzeCalls /\ net = Idle
     \/ call = NoCall /\ net \in Requests

\* generatePlatformListing(extracted, platform) at the clock reading now
callGenerate ==
  /\ call.fn = "generatePlatformListing"
  /\ ~call.done
  /\ call' = [call EXCEPT !.done = TRUE,
                          !.listing = generatePlatformListing(
                                        call.extracted, call.platform, now)]
  /\ UNCHANGED <<now, catalogData, rawData, isProcessing, net, reader,
               speech>>

\* analyzeMessage(message)
callAnalyze ==
  /\ call.fn = "analyzeMessage"
  /\ ~call.done
  /\ call' = [call EXCEPT !.done = TRUE,
                          !.result = analyzeMessage(call.message)]
  /\ UNCHANGED <<now, catalogData, rawData, isProcessing, net, reader,
               speech>>

NextFn == callGenerate \/ callAnalyze \/ serve

SpecFn == InitFn /\ [][NextFn]_vars

----------------------------------------------------------------------------
(* generatePlatformListing called twice on the same input *)

\* any subset of the ten keys, the sku also as the empty string that
\* "SKU: " at the end of a text is extracted to
PairMaps ==
  {[k \in pe[1] |-> IF k \in pe[2] THEN <<>> ELSE sampleValue(k)] :
     pe \in {qe \in (SUBSET PatternKeys) \X (SUBSET {k_sku}) :
               qe[2] \subseteq qe[1]}}

PairCalls ==
  {[fn |-> "generatePlatformListing", done |-> FALSE, extracted |-> e,
    platform |-> p, listing |-> EmptyObject, at |-> t,
    again |-> [done |-> FALSE, listing |-> EmptyObject, at |-> t]] :
     e \in PairMaps, p \in PlatformSet, t \in 0..MaxClock}

InitPair ==
  /\ now \in 0..MaxClock
  /\ catalogData = <<>>
  /\ rawData = <<>>
  /\ isProcessing = FALSE
  /\ reader = NoFile
  /\ speech = Mounted
  /\ net = Idle
  /\ call \in {c \in PairCalls : c.at = now}

\* generatePlatformListing(extracted, platform) once more, at the same
\* reading of the clock or at a later one
callGenerateAgain ==
  /\ call.fn = "generatePlatformListing"
  /\ call.done
  /\ ~call.again.done
  /\ \E t \in now..MaxClock :
       /\ now' = t
       /\ call' = [call EXCEPT !.again =
                     [done |-> TRUE,
                      listing |-> generatePlatformListing(
                                    call.extracted, call.platform, t),
                      at |-> t]]
  /\ UNCHANGED <<catalogData, rawData, isProcessing, net, reader,
               speech>>

NextPair == callGenerate \/ callGenerateAgain

SpecPair == InitPair /\ [][NextPair]_vars

----------------------------------------------------------------------------
(* extractProductInfo on texts of labelled lines, and the listings of what
   it returns *)

\* the most lines a text holds
MaxLines == 3

l_brandAcme ==  \* "Brand: Acme"
  <<"B","r","a","n","d",":"," ","A","c","m","e">>

l_manufacturerFoo ==  \* "Manufacturer: Foo"
  <<"M","a","n","u","f","a","c","t","u","r","e","r",":"," ","F","o","o">>

l_nameBrandNew ==  \* "Name: Brand New"
  <<"N","a","m","e",":"," ","B","r","a","n","d"," ","N","e","w">>

l_price500 ==  \* "Price: 500"
  <<"P","r","i","c","e",":"," ","5","0","0">>

l_mrp700 ==  \* "MRP: 700"
  <<"M","R","P",":"," ","7","0","0">>

l_sellingPrice450 ==  \* "Selling Price: 450"
  <<"S","e","l","l","i","n","g"," ","P","r","i","c","e",":"," ","4","5","0">>

v_600_00 ==  \* "600.00"
  <<"6","0","0",".","0","0">>

Lines ==
  {l_brandAcme, l_manufacturerFoo, l_nameBrandNew, l_price500, l_mrp700,
   l_sellingPrice450}

\* the lines joined by line feeds
RECURSIVE joinLines(_)
joinLines(lines) ==
  IF Len(lines) = 1 THEN lines[1]
  ELSE lines[1] \o <<"\n">> \o joinLines(Tail(lines))

\* the different lines of Lines in any order, at most MaxLines of them
LineLists ==
  {lines \in UNION {[1..n -> Lines] : n \in 1..MaxLines} :
     \A i, j \in DOMAIN lines : i # j => lines[i] # lines[j]}

ExtractCalls ==
  {[fn |-> "extractProductInfo", done |-> FALSE, lines |-> lines,
    text |-> joinLines(lines), extracted |-> EmptyObject] :
     lines \in LineLists}

InitExtract ==
  /\ now \in 0..MaxClock
  /\ catalogData = <<>>
  /\ rawData = <<>>
  /\ isProcessing = FALSE
  /\ reader = NoFile
  /\ speech = Mounted
  /\ net = Idle
  /\ call \in ExtractCalls

\* extractProductInfo(text)
callExtract ==
  /\ call.fn = "extractProductInfo"
  /\ ~call.done
  /\ call' = [call EXCEPT !.done = TRUE,
                          !.extracted = extractProductInfo(call.text)]
  /\ UNCHANGED <<now, catalogData, rawData, isProcessing, net, reader,
               speech>>

\* platforms.forEach: generatePlatformListing is about to be called on what
\* extractProductInfo returned
listExtracted ==
  /\ call.fn = "extractProductInfo"
  /\ call.done
  /\ \E platform \in PlatformSet :
       call' = [fn |-> "generatePlatformListing", done |-> FALSE,
                lines |-> call.lines, text |-> call.text,
                extracted |-> call.extracted, platform |-> platform,
                listing |-> EmptyObject]
  /\ UNCHANGED <<now, catalogData, rawData, isProcessing, net, reader,
               speech>>

NextExtract == callExtract \/ listExtracted \/ callGenerate

SpecExtract == InitExtract /\ [][NextExtract]_vars

----------------------------------------------------------------------------
(* Properties of generatePlatformListing, checked under SpecFn *)

\* a direct call of generatePlatformListing has returned
Generated == call.fn = "generatePlatformListing" /\ call.done

SeqToSet(seq) == {seq[i] : i \in 1..Len(seq)}

RequiredLabels(platform) == SeqToSet(PLATFORM_FIELDS(platform).required)

OptionalLabels(platform) == SeqToSet(PLATFORM_FIELDS(platform).optional)

\* the value the call's listing holds for a label
Listed(label) == Get(call.listing, listingKey(call.platform, label))

\* C1: for every platform and every extracted-field map, the listing holds
\* exactly one key PLATFORM_Label_With_Underscores for every required label,
\* whose value is the non-empty mapped value or else "[REQUIRED]"; and the
\* row POST builds holds a non-empty value under every required key of every
\* resolved platform.
C1_RequiredKeysPresent ==
  /\ Generated =>
       /\ Cardinality({listingKey(call.platform, f) :
                         f \in RequiredLabels(call.platform)})
            = Len(PLATFORM_FIELDS(call.platform).required)
       /\ \A f \in RequiredLabels(call.platform) :
            /\ listingKey(call.platform, f) \in DOMAIN call.listing
            /\ IsString(Listed(f)) /\ Listed(f) # <<>>
            /\ Listed(f) =
                 IF fieldMapping(call.extracted, now, f) \in {<<>>, Undefined}
                 THEN s_REQUIRED
                 ELSE fieldMapping(call.extracted, now, f)
  /\ (net.kind = "response" /\ net.reply.updatedCatalog.kind = "list") =>
       LET rows == net.reply.updatedCatalog.rows
           row == rows[Len(rows)]
       IN  \A p \in SeqToSet(analyzeMessage(net.request.message).platforms) :
             \A f \in RequiredLabels(p) :
               /\ listingKey(p, f) \in DOMAIN row
               /\ IsString(row[listingKey(p, f)])
               /\ row[listingKey(p, f)] # <<>>

\* C1 witness: a listing that holds a sentinel for one required label and an
\* extracted value for another
C1_Witness ==
  /\ Generated
  /\ \E f \in RequiredLabels(call.platform) : Listed(f) = s_REQUIRED
  /\ \E f \in RequiredLabels(call.platform) : Listed(f) = v_BlueShirt

\* the extracted field a label is copied from, for the labels that are
\* copied; Null for the derived labels, the image labels and the labels the
\* mapping table does not hold
copiedFrom(label) ==
  IF label = f_ProductName THEN k_name
  ELSE IF label = f_Brand THEN k_brand
  ELSE IF label = f_Category THEN k_category
  ELSE IF label \in {f_Price, f_SellingPrice, f_ListingPrice} THEN k_price
  ELSE IF label \in {f_Description, f_ProductDescription} THEN k_description
  ELSE IF label = f_Size THEN k_size
  ELSE IF label = f_Color THEN k_color
  ELSE IF label = f_Material THEN k_material
  ELSE IF label \in {f_Weight, f_PackageWeight} THEN k_weight
  ELSE Null

\* the labels the mapping table has no entry for
Unmapped ==
  {f_Dimensions, f_HSNCode, f_GST, f_PackageDimensions, f_ReturnPolicy,
   f_CareInstructions, f_Occasion, f_Pattern, f_Fit}

\* the extracted field of a copied label is absent
FieldAbsent(label) == copiedFrom(label) \notin DOMAIN call.extracted

\* the extracted value of a copied label, a non-empty string
FieldFilled(label) ==
  /\ copiedFrom(label) \in DOMAIN call.extracted
  /\ call.extracted[copiedFrom(label)] # <<>>

\* C2 as stated: an optional key appears only with a non-empty value that is
\* no sentinel, and an optional label whose extracted field is absent, or
\* that the mapping table does not hold, produces no key.
C2_OptionalOnlyWhenExtracted ==
  Generated =>
    \A f \in OptionalLabels(call.platform) :
      /\ listingKey(call.platform, f) \in DOMAIN call.listing =>
           Listed(f) \notin {<<>>, Undefined, s_REQUIRED}
      /\ (f \in Unmapped \/ FieldAbsent(f)) =>
           listingKey(call.platform, f) \notin DOMAIN call.listing

\* C2, amended: an optional key appears exactly when its mapped value is
\* non-empty and then holds that value, never an empty value and never the
\* sentinel in its place; an optional label the mapping table does not hold
\* produces no key, and so does one whose extracted field is absent or empty,
\* except Brand, which is then emitted with the default "Generic".
C2_OptionalOnlyWhenMapped ==
  Generated =>
    \A f \in OptionalLabels(call.platform) :
      IF f \in Unmapped
        THEN listingKey(call.platform, f) \notin DOMAIN call.listing
      ELSE IF FieldFilled(f)
        THEN Listed(f) = call.extracted[copiedFrom(f)]
      ELSE IF f = f_Brand
        THEN Listed(f) = s_Generic
      ELSE listingKey(call.platform, f) \notin DOMAIN call.listing

\* C2 witness: meesho, whose optional Brand is emitted without an extracted
\* brand, while its optional Material is left out
C2_Witness ==
  /\ Generated
  /\ call.platform = s_meesho
  /\ k_brand \notin DOMAIN call.extracted
  /\ k_material \notin DOMAIN call.extracted
  /\ k_weight \in DOMAIN call.extracted
  /\ Listed(f_Brand) = s_Generic
  /\ Listed(f_Weight) = v_200g
  /\ listingKey(s_meesho, f_Material) \notin DOMAIN call.listing

\* the labels that are copied from an extracted field
CopiedLabels(platform) ==
  {f \in RequiredLabels(platform) \cup OptionalLabels(platform) :
     copiedFrom(f) # Null}

\* C3 as stated: every copied label maps to the empty string when its field
\* is absent, so a required one then holds "[REQUIRED]" and an optional one
\* has no key; AMAZON_Brand is "[REQUIRED]" and MEESHO_Brand is absent when
\* no brand was extracted.
C3_AbsentFieldMapsToEmpty ==
  Generated =>
    \A f \in CopiedLabels(call.platform) :
      FieldAbsent(f) =>
        IF f \in RequiredLabels(call.platform)
        THEN Listed(f) = s_REQUIRED
        ELSE listingKey(call.platform, f) \notin DOMAIN call.listing

\* C3, amended: every copied label holds its extracted field when that is
\* non-empty; when the field is absent or empty, Brand holds "Generic"
\* (required or optional: AMAZON_Brand and MEESHO_Brand are both "Generic"
\* when no brand was extracted), every other required label holds
\* "[REQUIRED]" and every other optional label has no key.
C3_AbsentFieldMapsToDefault ==
  Generated =>
    \A f \in CopiedLabels(call.platform) :
      IF FieldFilled(f) THEN Listed(f) = call.extracted[copiedFrom(f)]
      ELSE IF f = f_Brand THEN Listed(f) = s_Generic
      ELSE IF f \in RequiredLabels(call.platform)
        THEN Listed(f) = s_REQUIRED
      ELSE listingKey(call.platform, f) \notin DOMAIN call.listing

\* C3 witness: amazon without an extracted brand or category
C3_Witness ==
  /\ Generated
  /\ call.platform = s_amazon
  /\ k_brand \notin DOMAIN call.extracted
  /\ k_category \notin DOMAIN call.extracted
  /\ k_color \in DOMAIN call.extracted
  /\ Listed(f_Brand) = s_Generic
  /\ Listed(f_Category) = s_REQUIRED

----------------------------------------------------------------------------
(* Properties of POST and analyzeMessage, checked under SpecFn *)

\* the route has answered the request in flight
Answered == net.kind = "response"

\* the body parses and holds a string under message
WellFormed(req) == req.body = "json" /\ IsString(req.message)

\* the intent and the platforms the request's message resolves to
Resolved(req) == analyzeMessage(req.message)

\* the request is one the catalog branch adds a row for
AddsRow(req) ==
  /\ WellFormed(req)
  /\ Resolved(req).intent = "catalog"
  /\ req.rawData # <<>>
  /\ req.catalogKind \in {"list", "undefined"}

\* C4: for a catalog message with non-empty rawData, updatedCatalog is the
\* received catalogData (the empty list if none was sent) with one row added
\* at the end: one longer, every earlier row unchanged at its index, and the
\* new row holding the extracted fields and the listing of every resolved
\* platform.
C4_CatalogAppendsOneRow ==
  (Answered /\ AddsRow(net.request)) =>
    LET req == net.request
        old == IF req.catalogKind = "list" THEN req.catalogData ELSE <<>>
        rows == net.reply.updatedCatalog.rows
        new == rows[Len(rows)]
        extracted == extractProductInfo(req.rawData)
        platforms == Resolved(req).platforms
    IN  /\ net.reply.status = 200
        /\ net.reply.updatedCatalog.kind = "list"
        /\ Len(rows) = Len(old) + 1
        /\ \A i \in 1..Len(old) : rows[i] = old[i]
        /\ \E t \in 0..MaxClock :
             LET listing(p) == generatePlatformListing(extracted, p, t)
                 listed == UNION {DOMAIN listing(p) : p \in SeqToSet(platforms)}
             IN  /\ DOMAIN new = (DOMAIN extracted) \cup listed
                 /\ \A p \in SeqToSet(platforms) :
                      \A key \in DOMAIN listing(p) : new[key] = listing(p)[key]
                 /\ \A key \in (DOMAIN extracted) \ listed :
                      new[key] = extracted[key]

\* C4 witness: a row added to a catalog of two rows
C4_Witness ==
  /\ Answered
  /\ AddsRow(net.request)
  /\ Len(net.request.catalogData) = 2
  /\ net.reply.updatedCatalog.kind = "list"
  /\ Len(net.reply.updatedCatalog.rows) = 3

\* C6 as stated: "analyze my catalog" sent with an empty catalog, whatever the
\* rawData, is answered with the text that no catalog is loaded and with no
\* updatedCatalog.
C6_AnalyzeMyCatalogNoCatalog ==
  (/\ Answered
   /\ net.request.body = "json"
   /\ net.request.message = m_analyzeCatalog
   /\ net.request.catalogKind = "list"
   /\ net.request.catalogData = <<>>) =>
    /\ net.reply.response = NoCatalogText
    /\ net.reply.updatedCatalog.kind # "list"

\* a direct call of analyzeMessage has returned
Analysed == call.fn = "analyzeMessage" /\ call.done

\* the place of a marketplace name in the fixed order
placeOf(platform) == CHOOSE i \in 1..Len(Platforms) : Platforms[i] = platform

\* C8: analyzeMessage returns one intent by fixed priority over the
\* lowercased message (catalog, then task, then help, then analyze, then
\* general), and platforms holds the marketplace names that occur in the
\* message, in the fixed order, or all four when the intent is catalog and
\* none occurs.
C8_IntentByPriority ==
  Analysed =>
    LET has(word) == includes(toLowerCase(call.message), word)
        isCatalog == has(s_catalog) \/ has(s_listing) \/ has(s_product)
        isTask == has(s_task) \/ has(s_remind) \/ has(s_schedule)
        isHelp == has(s_help) \/ has(s_how)
        isAnalyze == has(s_analyze) \/ has(s_check)
        named == {p \in PlatformSet : has(p)}
        intent == call.result.intent
        platforms == call.result.platforms
    IN  /\ intent \in {"catalog", "task", "help", "analyze", "general"}
        /\ (intent = "catalog") = isCatalog
        /\ (intent = "task") = (~isCatalog /\ isTask)
        /\ (intent = "help") = (~isCatalog /\ ~isTask /\ isHelp)
        /\ (intent = "analyze") =
             (~isCatalog /\ ~isTask /\ ~isHelp /\ isAnalyze)
        /\ (intent = "general") =
             (~isCatalog /\ ~isTask /\ ~isHelp /\ ~isAnalyze)
        /\ SeqToSet(platforms) =
             IF named = {} /\ intent = "catalog" THEN PlatformSet ELSE named
        /\ (platforms = Platforms) =
             ((named = {} /\ intent = "catalog") \/ named = PlatformSet)
        /\ \A i, j \in 1..Len(platforms) :
             i < j => placeOf(platforms[i]) < placeOf(platforms[j])

\* C8 witness: a message with a task keyword and a catalog keyword that names
\* no marketplace
C8_Witness ==
  /\ Analysed
  /\ call.message = m_scheduleListing
  /\ call.result.intent = "catalog"
  /\ call.result.platforms = Platforms

\* the request is one the analyze branch inspects a catalog for
Inspects(req) ==
  /\ WellFormed(req)
  /\ Resolved(req).intent = "analyze"
  /\ req.catalogKind = "list"
  /\ Len(req.catalogData) > 0

\* the row holds nothing, or the empty string, or the sentinel under the key
LacksAsStated(row, key) ==
  key \notin DOMAIN row \/ row[key] = <<>> \/ row[key] = s_REQUIRED

\* the row holds nothing, or a falsy value, or the sentinel under the key
LacksFalsy(row, key) ==
  key \notin DOMAIN row \/ row[key] \in {<<>>, NumberZero, s_REQUIRED}

\* the answer to an analyze request reports the pairs (platform, required
\* label) the first row lacks by Lacks: their number, and the first ten in
\* the order of the resolved platforms and of their required labels; it is
\* the complete answer when there is none
ReportsLacking(Lacks(_, _)) ==
  LET req == net.request
      row == req.catalogData[1]
      platforms == Resolved(req).platforms
      required(i) == PLATFORM_FIELDS(platforms[i]).required
      pairs == UNION {{<<i, j>> : j \in {n \in 1..Len(required(i)) :
                                           Lacks(row,
                                                 listingKey(platforms[i],
                                                            required(i)[n]))}} :
                        i \in 1..Len(platforms)}
      rank(ij) == 1 + Cardinality({x \in pairs :
                                     \/ x[1] < ij[1]
                                     \/ x[1] = ij[1] /\ x[2] < ij[2]})
      text == net.reply.response
  IN  /\ net.reply.status = 200
      /\ net.reply.updatedCatalog.kind = "null"
      /\ (text.template = "analysis complete") = (pairs = {})
      /\ pairs # {} =>
           /\ text.template = "analysis missing"
           /\ text.args[1] = natToString(Cardinality(pairs))
           /\ Len(text.args) =
                1 + (IF Cardinality(pairs) < 10 THEN Cardinality(pairs)
                     ELSE 10)
           /\ \A ij \in pairs :
                rank(ij) <= 10 =>
                  text.args[1 + rank(ij)] =
                    missingEntry(platforms[ij[1]], required(ij[1])[ij[2]])

\* C9 as stated: the analyze branch reads the first row only; a pair
\* (resolved platform, required label) counts as missing exactly when the
\* row's key is absent, empty or "[REQUIRED]"; at most the first ten are
\* listed, and the complete answer is given only when there is none.
C9_MissingAsStated ==
  (Answered /\ Inspects(net.request)) => ReportsLacking(LacksAsStated)

\* C9, amended: the analyze branch reads the first row only; a pair (resolved
\* platform, required label) counts as missing exactly when the row's key is
\* absent, holds a falsy value (the empty string, or the number 0 of a sheet
\* cell) or "[REQUIRED]"; at most the first ten are listed, and the complete
\* answer is given only when there is none.
C9_MissingWhenFalsy ==
  (Answered /\ Inspects(net.request)) => ReportsLacking(LacksFalsy)

\* C9 witness: a catalog of two rows whose first row holds the number 0 under
\* a required key, with more than ten pairs missing
C9_Witness ==
  /\ Answered
  /\ Inspects(net.request)
  /\ net.request.catalogData = <<rowZeroPrice, rowNameOnly>>
  /\ net.request.message = m_checkTwo
  /\ net.reply.response.template = "analysis missing"
  /\ Len(net.reply.response.args) = 11

----------------------------------------------------------------------------
(* Properties of the page and the route together, checked under Spec *)

\* the request is one POST answers with a text and no catalog
TextOnly(req) ==
  /\ WellFormed(req)
  /\ \/ Resolved(req).intent \in {"task", "help", "analyze", "general"}
     \/ Resolved(req).intent = "catalog" /\ req.rawData = <<>>

\* handleSendMessage finishes with the response in flight
Finishes == Answered /\ net.origin = "page" /\ net'.kind = "idle"

C5_TextReply ==
  (Answered /\ TextOnly(net.request)) =>
    /\ net.reply.status = 200
    /\ net.reply.updatedCatalog.kind = "null"
    /\ net.request.message = m_tasks =>
         /\ Resolved(net.request).intent = "task"
         /\ net.reply.response = Text("task", <<>>)

C5_CatalogKept ==
  (Finishes /\ TextOnly(net.request)) => catalogData' = catalogData

\* C5: a message whose intent is task, help, analyze or general, or catalog
\* with empty rawData, is answered with a text and no updatedCatalog, and the
\* step of handleSendMessage that applies the answer leaves the page's
\* catalog as it is; "what tasks do I have" resolves to task and is answered
\* with the task template.
C5_TextRepliesKeepCatalog == []C5_TextReply /\ [][C5_CatalogKept]_vars

\* C5 witness: the answer to "what tasks do I have" on its way to a page
\* whose catalog holds rows
C5_Witness ==
  /\ Answered
  /\ net.origin = "page"
  /\ net.request.message = m_tasks
  /\ net.reply.response.template = "task"
  /\ catalogData # <<>>

\* the handler throws: the body does not parse, message is no string, or the
\* catalog branch spreads a catalogData that is no list
Throws(req) ==
  \/ req.body # "json"
  \/ ~IsString(req.message)
  \/ /\ req.catalogKind = "number"
     /\ Resolved(req).intent = "catalog"
     /\ req.rawData # <<>>

C7_Apology ==
  (Answered /\ Throws(net.request)) =>
    /\ net.reply.status = 500
    /\ net.reply.response = Text("apology", <<>>)
    /\ net.reply.updatedCatalog.kind = "absent"

C7_CatalogKept ==
  (Finishes /\ net.reply.status = 500) => catalogData' = catalogData

\* C7: a request whose handling throws is answered with the apology text,
\* status 500 and no updatedCatalog field, and the step of handleSendMessage
\* that processes such an answer leaves the page's catalog as it is.
C7_FailureGivesApology == []C7_Apology /\ [][C7_CatalogKept]_vars

\* C7 witness: the apology on its way to a page whose catalog holds rows
C7_Witness ==
  /\ Answered
  /\ net.origin = "page"
  /\ Throws(net.request)
  /\ net.reply.status = 500
  /\ catalogData # <<>>

\* the keys of the generated identifiers
IdentifierKeys ==
  {listingKey(s_amazon, f_SKU), listingKey(s_flipkart, f_ProductID),
   listingKey(s_myntra, f_StyleID)}

\* C10 as stated: no two rows of the catalog that were built without a sku
\* share the identifier of a platform.
C10_IdentifiersDiffer ==
  \A i, j \in 1..Len(catalogData) :
    \A key \in IdentifierKeys :
      (/\ i < j
       /\ k_sku \notin DOMAIN catalogData[i]
       /\ k_sku \notin DOMAIN catalogData[j]
       /\ key \in DOMAIN catalogData[i]
       /\ key \in DOMAIN catalogData[j]) =>
        catalogData[i][key] # catalogData[j][key]

----------------------------------------------------------------------------
(* Properties of two calls of generatePlatformListing, checked under
   SpecPair *)

\* both calls have returned
Twice == call.fn = "generatePlatformListing" /\ call.done /\ call.again.done

\* the identifier keys of the first listing
ListedIdentifiers == IdentifierKeys \cap DOMAIN call.listing

\* C11 as stated: two calls on the same extracted fields and platform give
\* the same keys and the same value under every key but the identifier key
\* when sku is absent; when sku is present the two listings are identical
\* and the identifier key holds the extracted sku.
C11_SameButIdentifierWhenAbsent ==
  Twice =>
    /\ DOMAIN call.listing = DOMAIN call.again.listing
    /\ \A key \in (DOMAIN call.listing) \ IdentifierKeys :
         call.listing[key] = call.again.listing[key]
    /\ k_sku \in DOMAIN call.extracted =>
         /\ call.listing = call.again.listing
         /\ \A key \in ListedIdentifiers :
              call.listing[key] = call.extracted[k_sku]

\* C11, amended: two calls on the same extracted fields and platform give
\* the same keys and the same value under every key but the identifier key;
\* when the sku is present and not empty the two listings are identical and
\* the identifier key holds the sku; when the sku is absent or the empty
\* string the identifier values are the same exactly when the two calls read
\* the same clock value.
C11_SameButIdentifierWhenEmpty ==
  Twice =>
    /\ DOMAIN call.listing = DOMAIN call.again.listing
    /\ \A key \in (DOMAIN call.listing) \ IdentifierKeys :
         call.listing[key] = call.again.listing[key]
    /\ IF k_sku \in DOMAIN call.extracted /\ call.extracted[k_sku] # <<>>
       THEN /\ call.listing = call.again.listing
            /\ \A key \in ListedIdentifiers :
                 call.listing[key] = call.extracted[k_sku]
       ELSE \A key \in ListedIdentifiers :
              (call.listing[key] = call.again.listing[key])
                = (call.at = call.again.at)

\* C11 witness: two amazon listings of fields whose sku is the empty string,
\* made at different clock readings, that differ in AMAZON_SKU
C11_Witness ==
  /\ Twice
  /\ call.platform = s_amazon
  /\ k_sku \in DOMAIN call.extracted
  /\ call.extracted[k_sku] = <<>>
  /\ k_price \in DOMAIN call.extracted
  /\ call.at # call.again.at
  /\ call.listing[listingKey(s_amazon, f_SKU)]
       # call.again.listing[listingKey(s_amazon, f_SKU)]
  /\ call.listing[listingKey(s_amazon, f_MRP)]
       = call.again.listing[listingKey(s_amazon, f_MRP)]

----------------------------------------------------------------------------
(* Properties of extractProductInfo, checked under SpecExtract *)

\* extractProductInfo has returned (and its result may have been listed)
Extracted ==
  \/ call.fn = "extractProductInfo" /\ call.done
  \/ call.fn = "generatePlatformListing"

\* the text holds the line
HasLine(line) == \E i \in DOMAIN call.lines : call.lines[i] = line

\* C12 as stated: whatever lines precede or follow a line "Brand: Acme",
\* extractProductInfo returns brand = "Acme".
C12_BrandLineWins ==
  (Extracted /\ HasLine(l_brandAcme)) => Get(call.extracted, k_brand) = v_Acme

\* the listing of what extractProductInfo returned has been made, for a
\* platform that requires MRP
ListedWithMRP ==
  /\ call.fn = "generatePlatformListing"
  /\ call.done
  /\ f_MRP \in SeqToSet(PLATFORM_FIELDS(call.platform).required)

\* C13 as stated: whatever price-like lines precede or follow "Price: 500",
\* extractProductInfo returns price = "500" and the required MRP is
\* "600.00"; when no price is extracted the required MRP is "[REQUIRED]".
C13_PriceLineWins ==
  /\ (Extracted /\ HasLine(l_price500)) =>
       Get(call.extracted, k_price) = v_500
  /\ (ListedWithMRP /\ HasLine(l_price500)) =>
       call.listing[listingKey(call.platform, f_MRP)] = v_600_00
  /\ (ListedWithMRP /\ k_price \notin DOMAIN call.extracted) =>
       call.listing[listingKey(call.platform, f_MRP)] = s_REQUIRED

----------------------------------------------------------------------------
(* Properties of the page's asynchronous handlers, checked under Spec *)

\* every row of the catalog before the step is a row of the catalog after
RowsKept ==
  \A i \in DOMAIN catalogData :
    \E j \in DOMAIN catalogData' : catalogData'[j] = catalogData[i]

\* C14 as stated: under any interleaving of handleSendMessage and
\* reader.onload, the step of handleSendMessage that sets the catalog from
\* updatedCatalog leaves in it every row it held just before, the rows of
\* an upload that completed while the request was in flight among them.
C14_NoRowLost ==
  [][(Finishes /\ net.reply.updatedCatalog.kind = "list") => RowsKept]_vars

----------------------------------------------------------------------------
(* Properties of voice capture, checked under SpecVoice *)

\* a session is running, or has ended and is restarted by its onend
Capturing ==
  \E i \in DOMAIN speech.objs :
    \/ speech.objs[i].state = "running"
    \/ speech.objs[i].state = "ending" /\ speech.objs[i].listening

\* listening is on and the effect has run for it
ListeningRendered == speech.isListening /\ speech.rendered

C15_ListeningCaptures == ListeningRendered => Capturing

C15_ErrorResets ==
  (\E i \in DOMAIN speech.objs : onerror(i)) => ~speech'.isListening

C15_ToggleStarts ==
  (toggleListening /\ ~speech.isListening /\ speech'.isListening) =>
    speech'.objs[speech.ref].state = "running"

\* C15 as stated: while isListening is true and the effect has run for it,
\* a recognition session is running or is restarted by its onend handler; an
\* error event resets isListening to false, and a further toggleListening
\* starts capture again.
C15_VoiceStaysActive ==
  /\ []C15_ListeningCaptures
  /\ [][C15_ErrorResets]_vars
  /\ [][C15_ToggleStarts]_vars

====
